---- MODULE Spec2Model ----
(***************************************************************************)
(* Model of Mopy/bash/load_order.py (Wrye Bash): the load order cache,     *)
(* its saved-load-orders history with undo/redo, the trimming done when    *)
(* the history is persisted, and load order locking.                       *)
(*                                                                         *)
(* Every public function of the module is one action that runs the whole   *)
(* function.  The game handle (games.py) is outside this file; what it     *)
(* answers to each call is drawn from a small set (see set_load_order and  *)
(* get_load_order).                                                        *)
(***************************************************************************)
EXTENDS Integers, Sequences, FiniteSets, TLC

VARIABLES
    game_handle,          \* which kind of game handle the module is bound to
    ext,                  \* the load order files on disk, as the handle sees them
    cached_lord,          \* the module level cache
    _saved_load_orders,   \* list of lo_entry
    _current_list_index,
    locked,
    warn_locked,
    settings,             \* bass.settings['bosh.modInfos.resetMTimes']
    _lords_pickle,        \* the PickleDict: loaded or not, and the persisted data
    now,                  \* time.time()
    guards,               \* the with blocks of Unlock objects not yet left, innermost
                          \* last: the object of each and the __locked it holds
    entered,              \* observer: the value locked had when each live guard was entered
    prompts,              \* the toggle_lock_load_order calls waiting in balt.askContinue,
                          \* innermost last: the locked each read, and the guards live then
    last,                 \* observer: what the last operation did
    scn                   \* observer: progress of a save/undo/redo scenario

vars == <<game_handle, ext, cached_lord, _saved_load_orders, _current_list_index,
          locked, warn_locked, settings, _lords_pickle, now, guards, entered, prompts,
          last, scn>>

-----------------------------------------------------------------------------
(* Bounds of the model *)

\* longest history the model builds
MaxHist == 3
\* deepest nesting of Unlock guards
MaxGuards == 2
\* largest __keep_max tried when persisting
MaxKeep == 5
\* longest history tried when persisting
MaxLen == 8
\* most save_lo calls of an undo/redo scenario
MaxN == 2
\* longest list of names given to get_ordered
MaxNames == 3
\* longest history built by navigation from a pickled history
MaxNav == 4

MaxPrompts == 2

MaxUnlocks == 2

-----------------------------------------------------------------------------
(* Plain helpers *)

Range(s) == {s[k] : k \in DOMAIN s}

Max(a, b) == IF a >= b THEN a ELSE b

Min(a, b) == IF a <= b THEN a ELSE b

\* int(math.copysign(1, m))
Sign(m) == IF m < 0 THEN -1 ELSE 1

\* Python list indexing s[i] with a 0-based, possibly negative index
PyIndex(s, i) == IF i >= 0 THEN s[i + 1] ELSE s[Len(s) + i + 1]

\* where a Python slice bound lands in a list of length n
PyBound(n, i) == IF i < 0 THEN Max(n + i, 0) ELSE Min(i, n)

\* Python s[i:j]
PySlice(s, i, j) ==
    LET a == PyBound(Len(s), i)
        b == PyBound(Len(s), j)
    IN  IF b <= a THEN << >> ELSE SubSeq(s, a + 1, b)

\* Python s[i:i] = [e]
PySliceInsert(s, i, e) ==
    LET k == PyBound(Len(s), i)
    IN  SubSeq(s, 1, k) \o <<e>> \o SubSeq(s, k + 1, Len(s))

-----------------------------------------------------------------------------
(* class LoadOrder *)

\* the plugins of the model
Mods == {"a", "b"}

\* __mod_loIndex[m]: enumerate() leaves the last position of m in the dict
lindex(loadOrder, m) ==
    (CHOOSE k \in DOMAIN loadOrder :
        /\ loadOrder[k] = m
        /\ \A j \in DOMAIN loadOrder : loadOrder[j] = m => j <= k) - 1

\* sorted(active, key=__mod_loIndex.__getitem__): a stable insertion sort
RECURSIVE SortedByIndex(_, _)
SortedByIndex(loadOrder, active) ==
    IF active = << >> THEN << >>
    ELSE LET front == SortedByIndex(loadOrder, SubSeq(active, 1, Len(active) - 1))
             m     == active[Len(active)]
             keep  == {k \in 0..Len(front) :
                          \A j \in 1..k : lindex(loadOrder, front[j]) <= lindex(loadOrder, m)}
             k     == CHOOSE k \in keep : \A j \in keep : j <= k
         IN  SubSeq(front, 1, k) \o <<m>> \o SubSeq(front, k + 1, Len(front))

\* LoadOrder.__init__ that only asks for some load order when mods are active
CanConstruct_any_order(loadOrder, active) == active = << >> \/ loadOrder # << >>

\* LoadOrder.__init__ raises BoltError when some active mod has no load order
CanConstruct(loadOrder, active) == Range(active) \ Range(loadOrder) = {}

\* LoadOrder.__init__; is_empty tells the object __empty from every other one
LoadOrder(loadOrder, active) ==
    [loadOrder     |-> loadOrder,
     active        |-> Range(active),
     activeOrdered |-> SortedByIndex(loadOrder, active),
     is_empty      |-> FALSE]

\* the module level __empty = LoadOrder()
__empty == [LoadOrder(<< >>, << >>) EXCEPT !.is_empty = TRUE]

\* LoadOrder.__eq__
LordEq(l, r) == l.active = r.active /\ l.loadOrder = r.loadOrder

\* lo_entry = namedtuple('lo_entry', ['date', 'lord'])
lo_entry(date, lord) == [date |-> date, lord |-> lord]

-----------------------------------------------------------------------------
(* The game handle.  A call either raises or returns a (load order, active) *)
(* pair; the pairs a handle can answer with are drawn from Pairs.           *)

Pair(lo, acti) == [ok |-> TRUE, lo |-> lo, acti |-> acti]

Raise == [ok |-> FALSE, lo |-> << >>, acti |-> << >>]

\* the last pair names an active mod that has no load order
Pairs == { Pair(<< >>, << >>),
           Pair(<<"a", "b">>, <<"a">>),
           Pair(<<"a", "b">>, <<"b", "a">>),
           Pair(<<"a">>, <<"b">>) }

\* the kinds of handle games.game_factory gives; before
\* initialize_load_order_handle game_handle is None
Handles == {"Faithful", "Arbitrary"}

\* game_handle.set_load_order(lord, active, previous_lord, previous_active, dry_run):
\* the Faithful handle accepts the proposal as it is; the Arbitrary one may
\* raise or accept any pair instead
set_load_order(gh, lord, acti) ==
    IF gh = "Faithful" THEN {Pair(lord, acti)}
    ELSE IF gh = "Arbitrary" THEN Pairs \cup {Raise}
    ELSE {Raise}

\* game_handle.get_load_order(lord, acti): the Faithful handle returns what
\* it is given and reads what it is not given (None) from the files
get_load_order(gh, files, has_lord, lord, has_acti, acti) ==
    IF gh = "Faithful"
    THEN {Pair(IF has_lord THEN lord ELSE files.lo,
               IF has_acti THEN acti ELSE files.acti)}
    ELSE IF gh = "Arbitrary" THEN Pairs \cup {Raise}
    ELSE {Raise}

-----------------------------------------------------------------------------
(* History *)

\* _new_entry as list.append would do it: the entry goes to the end of the list
_new_entry_appended(saved, index, cached) ==
    Append(saved, lo_entry(now, cached))

\* _new_entry assigning to the slice [index:index + 1]: the new entry takes
\* the place of the entry found there
_new_entry_replacing(saved, index, cached) ==
    LET k == PyBound(Len(saved), index)
    IN  SubSeq(saved, 1, k) \o <<lo_entry(now, cached)>> \o SubSeq(saved, k + 2, Len(saved))

\* _new_entry, with the globals passed in
_new_entry(saved, index, cached) ==
    PySliceInsert(saved, index, lo_entry(now, cached))

\* _keep_max, Python 2: max_to_keep / 2 is the floor division of ints
_keep_max(max_to_keep, length, index) ==
    LET max_2 == max_to_keep \div 2
        y     == length - index
    IN  IF y <= max_2 THEN <<max_to_keep - y, y>>
        ELSE IF index > max_2 THEN <<max_2, max_2>>
        ELSE <<index, max_to_keep - index>>

\* what persist_orders puts in _lords_pickle.data
PersistedData(saved, index, keep_max) ==
    IF Len(saved) > keep_max
    THEN LET xy == _keep_max(keep_max, Len(saved), index)
         IN  [saved |-> PySlice(saved, index - xy[1], index + xy[2]),
              index |-> xy[1]]
    ELSE [saved |-> saved, index |-> index]

-----------------------------------------------------------------------------
(* Cache *)

\* the calls an operation made to the game handle: dry runs of set_load_order,
\* real set_load_order calls, get_load_order calls
Calls(dry, set, get) == [dry |-> dry, set |-> set, get |-> get]

NoMid == [saved |-> << >>, index |-> -1]

\* how an operation ends: the globals it leaves, where it raised ("none": it
\* returned), the calls it made, and mid: the history a forced rewrite
\* (get_lo) found when it began, or the history and the index of the entry
\* that the write of an undo or redo aims at
Res(cached, saved, index, files, raised, calls, mid) ==
    [cached |-> cached, saved |-> saved, index |-> index, files |-> files,
     raised |-> raised, calls |-> calls, mid |-> mid]

\* the finally block of _update_cache without its test for __empty
UpdateHistory_unguarded(cached, saved, index, index_move) ==
    IF index < 0 \/ (index_move = 0 /\ ~LordEq(cached, PyIndex(saved, index).lord))
    THEN [saved |-> _new_entry(saved, index + 1, cached), index |-> index + 1]
    ELSE IF index_move # 0
    THEN LET moved  == index + index_move
             target == PyIndex(saved, moved).lord
         IN  IF ~LordEq(target, cached)
             THEN LET at == Max(0, moved + Sign(index_move))
                  IN  [saved |-> _new_entry(saved, at, cached), index |-> at]
             ELSE [saved |-> saved, index |-> moved]
    ELSE [saved |-> saved, index |-> index]

\* the finally block of _update_cache that plants a new load order without
\* _current_list_index += 1
UpdateHistory_no_advance(cached, saved, index, index_move) ==
    IF cached.is_empty THEN [saved |-> saved, index |-> index]
    ELSE IF index < 0 \/ (index_move = 0 /\ ~LordEq(cached, PyIndex(saved, index).lord))
    THEN [saved |-> _new_entry(saved, index, cached), index |-> index]
    ELSE IF index_move # 0
    THEN LET moved  == index + index_move
             target == PyIndex(saved, moved).lord
         IN  IF ~LordEq(target, cached)
             THEN LET at == Max(0, moved + Sign(index_move))
                  IN  [saved |-> _new_entry(saved, at, cached), index |-> at]
             ELSE [saved |-> saved, index |-> moved]
    ELSE [saved |-> saved, index |-> index]

\* the finally block of _update_cache
UpdateHistory(cached, saved, index, index_move) ==
    IF cached.is_empty THEN [saved |-> saved, index |-> index]
    ELSE IF index < 0 \/ (index_move = 0 /\ ~LordEq(cached, PyIndex(saved, index).lord))
    THEN [saved |-> _new_entry(saved, index + 1, cached), index |-> index + 1]
    ELSE IF index_move # 0
    THEN LET moved  == index + index_move
             target == PyIndex(saved, moved).lord
         IN  IF ~LordEq(target, cached)
             THEN LET at == Max(0, moved + Sign(index_move))
                  IN  [saved |-> _new_entry(saved, at, cached), index |-> at]
             ELSE [saved |-> saved, index |-> moved]
    ELSE [saved |-> saved, index |-> index]

\* _update_cache, given what game_handle.get_load_order answered; c counts
\* the calls made before it
_update_cache(saved, index, files, answer, index_move, c) ==
    LET raised == IF ~answer.ok THEN "get_load_order"
                  ELSE IF ~CanConstruct(answer.lo, answer.acti) THEN "LoadOrder"
                  ELSE "none"
        cached == IF raised = "none" THEN LoadOrder(answer.lo, answer.acti) ELSE __empty
        h      == UpdateHistory(cached, saved, index, index_move)
    IN  Res(cached, h.saved, h.index, files, raised,
            Calls(c.dry, c.set, c.get + 1), NoMid)

\* save_lo with set_load_order inside the try block of _update_cache: the
\* cache is reset when set_load_order raises
save_lo_results_resetting(gh, cached, saved, index, files, lord, acti, index_move, c) ==
    LET applied  == set_load_order(gh, lord, acti)
        c1       == Calls(c.dry, c.set + 1, c.get)
        accepted == { LET written == IF gh = "Faithful" THEN Pair(a.lo, a.acti)
                                     ELSE files
                      IN  [files   |-> written,
                           answers |-> get_load_order(gh, written, TRUE, a.lo,
                                                      TRUE, a.acti)]
                      : a \in {b \in applied : b.ok} }
    IN  (IF Raise \in applied
         THEN {Res(__empty, saved, index, files, "set_load_order", c1, NoMid)}
         ELSE {})
        \cup UNION { { _update_cache(saved, index, w.files, r, index_move, c1) :
                         r \in w.answers }
                     : w \in accepted }

\* save_lo: every way the call can end.  accepted holds, for every pair
\* set_load_order can accept, the files it leaves and what get_load_order
\* can answer next
save_lo_results(gh, cached, saved, index, files, lord, acti, index_move, c) ==
    LET applied  == set_load_order(gh, lord, acti)
        c1       == Calls(c.dry, c.set + 1, c.get)
        accepted == { LET written == IF gh = "Faithful" THEN Pair(a.lo, a.acti)
                                     ELSE files
                      IN  [files   |-> written,
                           answers |-> get_load_order(gh, written, TRUE, a.lo,
                                                      TRUE, a.acti)]
                      : a \in {b \in applied : b.ok} }
    IN  (IF Raise \in applied
         THEN {Res(cached, saved, index, files, "set_load_order", c1, NoMid)}
         ELSE {})
        \cup UNION { { _update_cache(saved, index, w.files, r, index_move, c1) :
                         r \in w.answers }
                     : w \in accepted }

\* __restore with the lower bound of the range test off by one
RECURSIVE restore_results_low_bound(_, _, _, _, _, _, _)
restore_results_low_bound(gh, cached, saved, index, files, index_move, c) ==
    LET at == index + index_move
        c1 == Calls(c.dry + 1, c.set, c.get)
    IN  IF at < -1 \/ at > Len(saved) - 1
        THEN {Res(cached, saved, index, files, "none", c, NoMid)}
        ELSE
        LET previous == PyIndex(saved, at).lord
        IN  UNION {
              IF ~d.ok
              THEN {Res(cached, saved, index, files, "dry_run", c1, NoMid)}
              ELSE IF ~CanConstruct(d.lo, d.acti)
              THEN {Res(cached, saved, index, files, "LoadOrder_fix", c1, NoMid)}
              ELSE
              LET fixed == LoadOrder(d.lo, d.acti)
              IN  IF LordEq(fixed, cached)
                  THEN restore_results_low_bound(gh, cached, saved, index, files,
                                       index_move + Sign(index_move), c1)
                  ELSE { [o EXCEPT !.mid = [saved |-> saved, index |-> at]] :
                           o \in save_lo_results(gh, cached, saved, index, files,
                                                 fixed.loadOrder, fixed.activeOrdered,
                                                 index_move, c1) }
            : d \in set_load_order(gh, previous.loadOrder, previous.activeOrdered) }

\* __restore that does not hand its index_move to save_lo
RECURSIVE restore_results_no_move(_, _, _, _, _, _, _)
restore_results_no_move(gh, cached, saved, index, files, index_move, c) ==
    LET at == index + index_move
        c1 == Calls(c.dry + 1, c.set, c.get)
    IN  IF at < 0 \/ at > Len(saved) - 1
        THEN {Res(cached, saved, index, files, "none", c, NoMid)}
        ELSE
        LET previous == PyIndex(saved, at).lord
        IN  UNION {
              IF ~d.ok
              THEN {Res(cached, saved, index, files, "dry_run", c1, NoMid)}
              ELSE IF ~CanConstruct(d.lo, d.acti)
              THEN {Res(cached, saved, index, files, "LoadOrder_fix", c1, NoMid)}
              ELSE
              LET fixed == LoadOrder(d.lo, d.acti)
              IN  IF LordEq(fixed, cached)
                  THEN restore_results_no_move(gh, cached, saved, index, files,
                                       index_move + Sign(index_move), c1)
                  ELSE { [o EXCEPT !.mid = [saved |-> saved, index |-> at]] :
                           o \in save_lo_results(gh, cached, saved, index, files,
                                                 fixed.loadOrder, fixed.activeOrdered,
                                                 0, c1) }
            : d \in set_load_order(gh, previous.loadOrder, previous.activeOrdered) }

\* __restore that adds 1 to index_move when it skips an entry, whatever its sign
RECURSIVE restore_results_step_up(_, _, _, _, _, _, _)
restore_results_step_up(gh, cached, saved, index, files, index_move, c) ==
    LET at == index + index_move
        c1 == Calls(c.dry + 1, c.set, c.get)
    IN  IF at < 0 \/ at > Len(saved) - 1
        THEN {Res(cached, saved, index, files, "none", c, NoMid)}
        ELSE
        LET previous == PyIndex(saved, at).lord
        IN  UNION {
              IF ~d.ok
              THEN {Res(cached, saved, index, files, "dry_run", c1, NoMid)}
              ELSE IF ~CanConstruct(d.lo, d.acti)
              THEN {Res(cached, saved, index, files, "LoadOrder_fix", c1, NoMid)}
              ELSE
              LET fixed == LoadOrder(d.lo, d.acti)
              IN  IF LordEq(fixed, cached)
                  THEN restore_results_step_up(gh, cached, saved, index, files,
                                       index_move + 1, c1)
                  ELSE { [o EXCEPT !.mid = [saved |-> saved, index |-> at]] :
                           o \in save_lo_results(gh, cached, saved, index, files,
                                                 fixed.loadOrder, fixed.activeOrdered,
                                                 index_move, c1) }
            : d \in set_load_order(gh, previous.loadOrder, previous.activeOrdered) }

\* __restore that writes the entry next to the current one even if it equals
\* the cached load order
RECURSIVE restore_results_no_skip(_, _, _, _, _, _, _)
restore_results_no_skip(gh, cached, saved, index, files, index_move, c) ==
    LET at == index + index_move
        c1 == Calls(c.dry + 1, c.set, c.get)
    IN  IF at < 0 \/ at > Len(saved) - 1
        THEN {Res(cached, saved, index, files, "none", c, NoMid)}
        ELSE
        LET previous == PyIndex(saved, at).lord
        IN  UNION {
              IF ~d.ok
              THEN {Res(cached, saved, index, files, "dry_run", c1, NoMid)}
              ELSE IF ~CanConstruct(d.lo, d.acti)
              THEN {Res(cached, saved, index, files, "LoadOrder_fix", c1, NoMid)}
              ELSE
              LET fixed == LoadOrder(d.lo, d.acti)
              IN  IF FALSE
                  THEN restore_results_no_skip(gh, cached, saved, index, files,
                                       index_move + Sign(index_move), c1)
                  ELSE { [o EXCEPT !.mid = [saved |-> saved, index |-> at]] :
                           o \in save_lo_results(gh, cached, saved, index, files,
                                                 fixed.loadOrder, fixed.activeOrdered,
                                                 index_move, c1) }
            : d \in set_load_order(gh, previous.loadOrder, previous.activeOrdered) }

\* __restore: every way the call can end; c counts the calls made so far
RECURSIVE restore_results(_, _, _, _, _, _, _)
restore_results(gh, cached, saved, index, files, index_move, c) ==
    LET at == index + index_move
        c1 == Calls(c.dry + 1, c.set, c.get)
    IN  IF at < 0 \/ at > Len(saved) - 1
        THEN {Res(cached, saved, index, files, "none", c, NoMid)}
        ELSE
        LET previous == PyIndex(saved, at).lord
        IN  UNION {
              IF ~d.ok
              THEN {Res(cached, saved, index, files, "dry_run", c1, NoMid)}
              ELSE IF ~CanConstruct(d.lo, d.acti)
              THEN {Res(cached, saved, index, files, "LoadOrder_fix", c1, NoMid)}
              ELSE
              LET fixed == LoadOrder(d.lo, d.acti)
              IN  IF LordEq(fixed, cached)
                  THEN restore_results(gh, cached, saved, index, files,
                                       index_move + Sign(index_move), c1)
                  ELSE { [o EXCEPT !.mid = [saved |-> saved, index |-> at]] :
                           o \in save_lo_results(gh, cached, saved, index, files,
                                                 fixed.loadOrder, fixed.activeOrdered,
                                                 index_move, c1) }
            : d \in set_load_order(gh, previous.loadOrder, previous.activeOrdered) }

\* get_lo after the pickle is loaded: every way the call can end.  answers
\* is what game_handle.get_load_order can answer to _update_cache(lo, active)
get_lo_results(gh, cached, saved, index, files, lk, answers) ==
    LET memo == lk /\ saved # << >>
        drys == IF memo
                THEN set_load_order(gh, PyIndex(saved, index).lord.loadOrder,
                                    PyIndex(saved, index).lord.activeOrdered)
                ELSE {Raise}   \* no call is made
        c1   == Calls(IF memo THEN 1 ELSE 0, 0, 0)
    IN  UNION {
          IF memo /\ ~d.ok
          THEN {Res(cached, saved, index, files, "dry_run", c1, NoMid)}
          ELSE IF memo /\ ~CanConstruct(d.lo, d.acti)
          THEN {Res(cached, saved, index, files, "LoadOrder_fix", c1, NoMid)}
          ELSE
          LET fixed == LoadOrder(d.lo, d.acti)
          IN  UNION {
                LET u == _update_cache(saved, index, files, a, 0, c1)
                IN  IF u.raised = "none" /\ memo /\ u.cached.loadOrder # fixed.loadOrder
                    THEN { [o EXCEPT !.mid = [saved |-> u.saved, index |-> u.index]] :
                             o \in save_lo_results(gh, u.cached, u.saved, u.index, u.files,
                                                   fixed.loadOrder, fixed.activeOrdered,
                                                   0, u.calls) }
                    ELSE {u}
              : a \in answers }
        : d \in drys }

-----------------------------------------------------------------------------
(* Observers *)

\* what the last operation was (arg: the __keep_max of persist_orders) and
\* how it ended
LastOf(op, o) ==
    [op |-> op, arg |-> 0, raised |-> o.raised, calls |-> o.calls, mid |-> o.mid]

Quiet(op) ==
    [op |-> op, arg |-> 0, raised |-> "none", calls |-> Calls(0, 0, 0), mid |-> NoMid]

\* the scenario observer: after Start, n save_lo calls, then undos, then redos
Idle == [phase |-> "free", s0 |-> __empty, final |-> __empty,
         n |-> 0, undone |-> 0, redone |-> 0]

-----------------------------------------------------------------------------
(* The operations *)

\* the module level values, with game_handle None as the import leaves it or with
\* the handle initialize_load_order_handle has bound
Imported(gh) ==
    /\ game_handle = gh
    /\ ext \in (IF gh = "Faithful" THEN Pairs ELSE {Pair(<< >>, << >>)})
    /\ cached_lord = __empty
    /\ _saved_load_orders = << >>
    /\ _current_list_index = -1
    /\ locked = FALSE
    /\ warn_locked = FALSE
    /\ settings \in BOOLEAN
    /\ _lords_pickle = [loaded |-> FALSE, saved |-> << >>, index |-> -1]
    /\ now = 0
    /\ guards = << >>
    /\ prompts = << >>
    /\ entered = << >>
    /\ last = Quiet("init")
    /\ scn = Idle

Init == Imported("None")

\* initialize_load_order_handle(mod_infos): games.game_factory gives a handle of
\* kind gh; p is the load order files a handle that reads them finds
initialize_load_order_handle(gh, p) ==
    /\ game_handle' = gh
    /\ ext' = (IF gh # "Faithful" THEN Pair(<< >>, << >>)
               ELSE IF game_handle = "Faithful" THEN ext ELSE p)
    /\ last' = Quiet("bind")
    /\ UNCHANGED <<cached_lord, _saved_load_orders, _current_list_index, locked,
                   warn_locked, settings, _lords_pickle, now, guards, entered>>

\* with game_handle None every call of a method of the handle raises AttributeError
\* and no handle is called
Unbound(o) ==
    IF game_handle = "None" /\ o.raised # "none"
    THEN [o EXCEPT !.raised = "AttributeError", !.calls = Calls(0, 0, 0)]
    ELSE o

\* the globals an operation of the cache leaves
Leaves(op, o) ==
    /\ Len(o.saved) <= (IF scn.phase = "nav" THEN MaxNav ELSE MaxHist)
    /\ cached_lord' = o.cached
    /\ _saved_load_orders' = o.saved
    /\ _current_list_index' = o.index
    /\ ext' = o.files
    /\ last' = LastOf(op, Unbound(o))

\* get_lo(cached, cached_active); the first call loads the pickle: the
\* history and index an earlier session persisted, or [] and -1 from
\* data.get() when there was none.  The handle says what it likes to
\* load_order_changed() and active_changed()
get_lo(cached, cached_active) ==
    LET first == ~_lords_pickle.loaded
        saved == IF first THEN _lords_pickle.saved ELSE _saved_load_orders
        index == IF first THEN _lords_pickle.index ELSE _current_list_index
        lk    == IF first THEN settings ELSE locked
        answers == UNION { get_load_order(game_handle, ext,
                               ~cached_lord.is_empty /\ cached /\ ~lord_changed,
                               cached_lord.loadOrder,
                               ~cached_lord.is_empty /\ cached_active /\ ~acti_changed,
                               cached_lord.activeOrdered)
                           : lord_changed \in BOOLEAN, acti_changed \in BOOLEAN }
    IN  /\ \E o \in get_lo_results(game_handle, cached_lord, saved, index, ext, lk,
                                   answers) :
              /\ Leaves("get_lo", o)
              /\ warn_locked' = (warn_locked \/ (o.calls.set = 1 /\ o.raised = "none"))
        /\ locked' = lk
        /\ _lords_pickle' = [_lords_pickle EXCEPT !.loaded = TRUE]
        /\ UNCHANGED <<game_handle, settings, now, guards, entered>>

\* save_lo(lord, acti); it does not look at the pickle, and works on the module
\* level history when no get_lo has loaded one yet
save_lo(lord, acti) ==
    /\ \E o \in save_lo_results(game_handle, cached_lord, _saved_load_orders,
                                _current_list_index, ext, lord, acti, 0,
                                Calls(0, 0, 0)) :
          Leaves("save_lo", o)
    /\ UNCHANGED <<game_handle, locked, warn_locked, settings, _lords_pickle, now,
                   guards, entered>>

__restore(op, index_move) ==
    /\ \E o \in restore_results(game_handle, cached_lord, _saved_load_orders,
                                _current_list_index, ext, index_move,
                                Calls(0, 0, 0)) :
          Leaves(op, o)
    /\ UNCHANGED <<game_handle, locked, warn_locked, settings, _lords_pickle, now,
                   guards, entered>>

undo_load_order == __restore("undo", -1)

redo_load_order == __restore("redo", 1)

\* balt.askContinue returning, if toggle_lock_load_order took every answer for a yes
askContinue_unasked(answer) ==
    /\ prompts # << >>
    /\ prompts[Len(prompts)].depth = Len(guards)
    /\ locked' = TRUE
    /\ settings' = TRUE
    /\ prompts' = SubSeq(prompts, 1, Len(prompts) - 1)
    /\ last' = [Quiet("toggle") EXCEPT !.arg = IF answer THEN 0 ELSE 1]
    /\ UNCHANGED <<game_handle, ext, cached_lord, _saved_load_orders,
                   _current_list_index, warn_locked, _lords_pickle, now, guards,
                   entered>>

\* toggle_lock_load_order up to its call of balt.askContinue: it reads locked, and to
\* unlock it writes at once; to lock it asks first, and while the prompt is open the
\* other operations run
toggle_lock_load_order ==
    LET lock == ~locked
    IN  /\ IF lock
           THEN /\ Len(prompts) < MaxPrompts
                /\ prompts' = Append(prompts, [locked |-> locked, depth |-> Len(guards)])
                /\ last' = Quiet("ask")
                /\ UNCHANGED <<locked, settings>>
           ELSE /\ locked' = lock
                /\ settings' = lock
                /\ last' = Quiet("toggle")
                /\ UNCHANGED prompts
        /\ UNCHANGED <<game_handle, ext, cached_lord, _saved_load_orders,
                       _current_list_index, warn_locked, _lords_pickle, now, guards,
                       entered>>

\* balt.askContinue returns answer to the innermost waiting toggle_lock_load_order,
\* which writes it to locked and to the setting whatever locked has become meanwhile;
\* what was begun inside the prompt has ended by then.  The record of the call keeps
\* arg 1 when the answer was False
askContinue(answer) ==
    /\ prompts # << >>
    /\ prompts[Len(prompts)].depth = Len(guards)
    /\ locked' = answer
    /\ settings' = answer
    /\ prompts' = SubSeq(prompts, 1, Len(prompts) - 1)
    /\ last' = [Quiet("toggle") EXCEPT !.arg = IF answer THEN 0 ELSE 1]
    /\ UNCHANGED <<game_handle, ext, cached_lord, _saved_load_orders,
                   _current_list_index, warn_locked, _lords_pickle, now, guards,
                   entered>>

\* the Unlock objects
Unlocks == 1..MaxUnlocks

\* Unlock.__enter__ of the object u: self.__locked is a field of the object, so
\* entering an object whose with block is not yet left overwrites what it held
Unlock_enter(u) ==
    /\ Len(guards) < MaxGuards
    /\ LET held == [obj |-> u, __locked |-> locked]
       IN  guards' = Append([k \in DOMAIN guards |->
                                IF guards[k].obj = u THEN held ELSE guards[k]], held)
    /\ entered' = Append(entered, locked)
    /\ locked' = FALSE
    /\ last' = Quiet("enter")
    /\ UNCHANGED <<game_handle, ext, cached_lord, _saved_load_orders,
                   _current_list_index, warn_locked, settings, _lords_pickle, now>>

\* Unlock.__exit__ of the innermost with block, left normally or by an exception
Unlock_exit ==
    /\ guards # << >>
    /\ IF prompts = << >> THEN TRUE ELSE prompts[Len(prompts)].depth < Len(guards)
    /\ locked' = guards[Len(guards)].__locked
    /\ guards' = SubSeq(guards, 1, Len(guards) - 1)
    /\ entered' = SubSeq(entered, 1, Len(entered) - 1)
    /\ last' = [Quiet("exit") EXCEPT !.raised = last.raised]
    /\ UNCHANGED <<game_handle, ext, cached_lord, _saved_load_orders,
                   _current_list_index, warn_locked, settings, _lords_pickle, now>>

\* the user changes the load order files outside the program
ExternalChange(p) ==
    /\ game_handle = "Faithful"
    /\ p # ext
    /\ ext' = p
    /\ last' = Quiet("external")
    /\ UNCHANGED <<game_handle, cached_lord, _saved_load_orders, _current_list_index,
                   locked, warn_locked, settings, _lords_pickle, now, guards, entered>>

\* persist_orders if the trimmed slice also replaced the history in memory
persist_orders_in_place(keep_max) ==
    /\ _lords_pickle.loaded
    /\ LET data == PersistedData(_saved_load_orders, _current_list_index, keep_max)
       IN  /\ _lords_pickle' = [loaded |-> TRUE, saved |-> data.saved,
                                index |-> data.index]
           /\ _saved_load_orders' = data.saved
           /\ _current_list_index' = data.index
    /\ last' = [Quiet("persist") EXCEPT !.arg = keep_max]
    /\ UNCHANGED <<game_handle, ext, cached_lord, locked, warn_locked, settings, now,
                   guards, entered>>

\* persist_orders(__keep_max): _lords_pickle.save() writes the data; before the
\* first get_lo _lords_pickle is None and its first line raises AttributeError
persist_orders(keep_max) ==
    /\ LET data == PersistedData(_saved_load_orders, _current_list_index, keep_max)
       IN  _lords_pickle' = IF _lords_pickle.loaded
                               THEN [loaded |-> TRUE, saved |-> data.saved,
                                     index |-> data.index]
                               ELSE _lords_pickle
    /\ last' = [Quiet("persist") EXCEPT !.arg = keep_max,
                    !.raised = IF _lords_pickle.loaded THEN "none"
                                                       ELSE "AttributeError"]
    /\ UNCHANGED <<game_handle, ext, cached_lord, _saved_load_orders,
                   _current_list_index, locked, warn_locked, settings, now, guards,
                   entered>>

-----------------------------------------------------------------------------
(* The cache, the history and the lock flag from the import on: the handle  *)
(* is bound, and bound again, by initialize_load_order_handle to either     *)
(* kind of handle                                                          *)

Next ==
    \/ /\ \E cached, cached_active \in BOOLEAN : get_lo(cached, cached_active)
       /\ UNCHANGED <<scn, prompts>>
    \/ /\ \E p \in Pairs : save_lo(p.lo, p.acti)
       /\ UNCHANGED <<scn, prompts>>
    \/ /\ undo_load_order
       /\ UNCHANGED <<scn, prompts>>
    \/ /\ redo_load_order
       /\ UNCHANGED <<scn, prompts>>
    \/ /\ \E p \in Pairs : ExternalChange(p)
       /\ UNCHANGED <<scn, prompts>>
    \/ /\ \E gh \in Handles : \E p \in Pairs : initialize_load_order_handle(gh, p)
       /\ UNCHANGED <<scn, prompts>>

Spec == Init /\ [][Next]_vars

-----------------------------------------------------------------------------
(* Locking and unlocking the load order between the reads and the writes,  *)
(* with the handle that accepts what it is asked; the lock setting of an   *)
(* earlier session is on or off                                            *)

InitLock == Imported("Faithful")

NextLock ==
    \/ /\ \E cached, cached_active \in BOOLEAN : get_lo(cached, cached_active)
       /\ UNCHANGED <<scn, prompts>>
    \/ /\ \E p \in Pairs : save_lo(p.lo, p.acti)
       /\ UNCHANGED <<scn, prompts>>
    \/ /\ toggle_lock_load_order
       /\ UNCHANGED scn
    \/ /\ \E answer \in BOOLEAN : askContinue(answer)
       /\ UNCHANGED scn
    \/ /\ \E p \in Pairs : ExternalChange(p)
       /\ UNCHANGED <<scn, prompts>>

SpecLock == InitLock /\ [][NextLock]_vars

-----------------------------------------------------------------------------
(* Unlock guards around the operations that read or set the lock flag, with *)
(* the handle that accepts what it is asked.  undo and redo neither read    *)
(* nor write locked.                                                        *)

InitUnlock == Imported("Faithful")

NextUnlock ==
    \/ /\ \E cached, cached_active \in BOOLEAN : get_lo(cached, cached_active)
       /\ UNCHANGED <<scn, prompts>>
    \/ /\ \E p \in Pairs : save_lo(p.lo, p.acti)
       /\ UNCHANGED <<scn, prompts>>
    \/ /\ toggle_lock_load_order
       /\ UNCHANGED scn
    \/ /\ \E answer \in BOOLEAN : askContinue(answer)
       /\ UNCHANGED scn
    \/ /\ \E u \in Unlocks : Unlock_enter(u)
       /\ UNCHANGED <<scn, prompts>>
    \/ /\ Unlock_exit
       /\ UNCHANGED <<scn, prompts>>

SpecUnlock == InitUnlock /\ [][NextUnlock]_vars

-----------------------------------------------------------------------------
(* Persisting histories of every length up to MaxLen.  The history of      *)
(* InitTrim is the one length save_lo calls and then undos leave: entries  *)
(* in the order they were made, each differing from the one before.        *)

Cycle == << Pair(<<"a", "b">>, <<"a">>), Pair(<<"a", "b">>, <<"b", "a">>),
            Pair(<< >>, << >>) >>

Made(k) == LoadOrder(Cycle[(k % 3) + 1].lo, Cycle[(k % 3) + 1].acti)

InitTrim ==
    /\ game_handle = "Faithful"
    /\ \E length \in 1..MaxLen :
          /\ _saved_load_orders = [k \in 1..length |-> lo_entry(k, Made(k))]
          /\ _current_list_index \in 0..(length - 1)
          /\ now = length + 1
    /\ cached_lord = PyIndex(_saved_load_orders, _current_list_index).lord
    /\ ext = Pair(cached_lord.loadOrder, cached_lord.activeOrdered)
    /\ locked = FALSE
    /\ warn_locked = FALSE
    /\ settings = FALSE
    /\ _lords_pickle = [loaded |-> TRUE, saved |-> << >>, index |-> -1]
    /\ guards = << >>
    /\ prompts = << >>
    /\ entered = << >>
    /\ last = Quiet("init")
    /\ scn = Idle

NextTrim ==
    /\ \E keep_max \in 1..MaxKeep : persist_orders(keep_max)
    /\ UNCHANGED <<scn, prompts>>

SpecTrim == InitTrim /\ [][NextTrim]_vars

-----------------------------------------------------------------------------
(* get_lo inside and outside Unlock guards, in a session that finds the    *)
(* history and the lock setting of an earlier one; the lock is not toggled *)

InitGuarded ==
    /\ game_handle = "Faithful"
    /\ ext \in {p \in Pairs : CanConstruct(p.lo, p.acti)}
    /\ cached_lord = __empty
    /\ _saved_load_orders = << >>
    /\ _current_list_index = -1
    /\ locked = FALSE
    /\ warn_locked = FALSE
    /\ settings \in BOOLEAN
    /\ \E length \in 0..(MaxHist - 1) :
          \E index \in (IF length = 0 THEN {-1} ELSE 0..(length - 1)) :
             _lords_pickle = [loaded |-> FALSE,
                              saved |-> [k \in 1..length |-> lo_entry(0, Made(k))],
                              index |-> index]
    /\ now = 0
    /\ guards = << >>
    /\ prompts = << >>
    /\ entered = << >>
    /\ last = Quiet("init")
    /\ scn = Idle

NextGuarded ==
    \/ /\ \E cached, cached_active \in BOOLEAN : get_lo(cached, cached_active)
       /\ UNCHANGED <<scn, prompts>>
    \/ /\ \E p \in Pairs : ExternalChange(p)
       /\ UNCHANGED <<scn, prompts>>
    \/ /\ \E u \in Unlocks : Unlock_enter(u)
       /\ UNCHANGED <<scn, prompts>>
    \/ /\ Unlock_exit
       /\ UNCHANGED <<scn, prompts>>

SpecGuarded == InitGuarded /\ [][NextGuarded]_vars

-----------------------------------------------------------------------------
(* A session that finds the history and the lock setting of an earlier one, *)
(* under both kinds of handle; save_lo, undo and redo may come before the   *)
(* first get_lo, which is the call that loads what the earlier one left     *)

InitSession ==
    /\ game_handle = "None"
    /\ ext = Pair(<< >>, << >>)
    /\ cached_lord = __empty
    /\ _saved_load_orders = << >>
    /\ _current_list_index = -1
    /\ locked = FALSE
    /\ warn_locked = FALSE
    /\ settings \in BOOLEAN
    /\ \E length \in 0..(MaxHist - 1) :
          \E index \in (IF length = 0 THEN {-1} ELSE 0..(length - 1)) :
             _lords_pickle = [loaded |-> FALSE,
                              saved |-> [k \in 1..length |-> lo_entry(0, Made(k))],
                              index |-> index]
    /\ now = 0
    /\ guards = << >>
    /\ prompts = << >>
    /\ entered = << >>
    /\ last = Quiet("init")
    /\ scn = Idle

NextSession ==
    \/ /\ \E cached, cached_active \in BOOLEAN : get_lo(cached, cached_active)
       /\ UNCHANGED <<scn, prompts>>
    \/ /\ \E p \in Pairs : save_lo(p.lo, p.acti)
       /\ UNCHANGED <<scn, prompts>>
    \/ /\ undo_load_order
       /\ UNCHANGED <<scn, prompts>>
    \/ /\ redo_load_order
       /\ UNCHANGED <<scn, prompts>>
    \/ /\ \E gh \in Handles : initialize_load_order_handle(gh, Pair(<< >>, << >>))
       /\ UNCHANGED <<scn, prompts>>

SpecSession == InitSession /\ [][NextSession]_vars

-----------------------------------------------------------------------------
(* A session that persists its history between the operations, with the    *)
(* handle that accepts what it is asked                                    *)

InitPersist == Imported("Faithful") /\ ~settings

NextPersist ==
    \/ /\ \E cached, cached_active \in BOOLEAN : get_lo(cached, cached_active)
       /\ UNCHANGED <<scn, prompts>>
    \/ /\ \E p \in Pairs : save_lo(p.lo, p.acti)
       /\ UNCHANGED <<scn, prompts>>
    \/ /\ undo_load_order
       /\ UNCHANGED <<scn, prompts>>
    \/ /\ redo_load_order
       /\ UNCHANGED <<scn, prompts>>
    \/ /\ \E p \in Pairs : ExternalChange(p)
       /\ UNCHANGED <<scn, prompts>>
    \/ /\ \E keep_max \in 1..MaxKeep : persist_orders(keep_max)
       /\ UNCHANGED <<scn, prompts>>

SpecPersist == InitPersist /\ [][NextPersist]_vars

-----------------------------------------------------------------------------
(* Undo and redo over a history that an earlier session has pickled        *)

InitNav ==
    /\ game_handle \in Handles
    /\ ext \in (IF game_handle = "Faithful"
                THEN {Pair(<< >>, << >>), Pair(<<"a", "b">>, <<"a">>)}
                ELSE {Pair(<< >>, << >>)})
    /\ cached_lord = __empty
    /\ _saved_load_orders = << >>
    /\ _current_list_index = -1
    /\ locked = FALSE
    /\ warn_locked = FALSE
    /\ settings = FALSE
    /\ \E length \in 1..(MaxNav - 1) :
          \E index \in 0..(length - 1) :
             _lords_pickle = [loaded |-> FALSE,
                              saved |-> [k \in 1..length |-> lo_entry(0, Made(k))],
                              index |-> index]
    /\ now = 0
    /\ guards = << >>
    /\ prompts = << >>
    /\ entered = << >>
    /\ last = Quiet("init")
    /\ scn = [Idle EXCEPT !.phase = "nav"]

NextNav ==
    \/ /\ \E cached, cached_active \in BOOLEAN : get_lo(cached, cached_active)
       /\ UNCHANGED <<scn, prompts>>
    \/ /\ undo_load_order
       /\ UNCHANGED <<scn, prompts>>
    \/ /\ redo_load_order
       /\ UNCHANGED <<scn, prompts>>

SpecNav == InitNav /\ [][NextNav]_vars

-----------------------------------------------------------------------------
(* A scenario of save_lo calls, then as many undos, then as many redos,    *)
(* begun in any state the operations reach with the handle that accepts    *)
(* what it is asked                                                        *)

InitUndoRedo == Imported("Faithful") /\ ~settings

\* the scenario begins where the cache holds the current history entry
Start ==
    /\ scn.phase = "free"
    /\ ~cached_lord.is_empty
    /\ _saved_load_orders # << >>
    /\ LordEq(PyIndex(_saved_load_orders, _current_list_index).lord, cached_lord)
    /\ scn' = [phase |-> "saving", s0 |-> cached_lord, final |-> cached_lord,
               n |-> 0, undone |-> 0, redone |-> 0]
    /\ UNCHANGED <<game_handle, ext, cached_lord, _saved_load_orders,
                   _current_list_index, locked, warn_locked, settings, _lords_pickle,
                   now, guards, entered, last>>
    /\ UNCHANGED prompts

\* a save_lo call proposing a snapshot that differs from the current one
ScnSave(p) ==
    /\ scn.phase = "saving"
    /\ scn.n < MaxN
    /\ CanConstruct(p.lo, p.acti)
    /\ ~LordEq(LoadOrder(p.lo, p.acti), cached_lord)
    /\ save_lo(p.lo, p.acti)
    /\ scn' = [scn EXCEPT !.n = @ + 1, !.final = LoadOrder(p.lo, p.acti)]
    /\ UNCHANGED prompts

ScnUndo ==
    /\ scn.phase \in {"saving", "undoing"}
    /\ scn.n >= 1
    /\ scn.undone < scn.n
    /\ undo_load_order
    /\ scn' = [scn EXCEPT !.phase = "undoing", !.undone = @ + 1]
    /\ UNCHANGED prompts

ScnRedo ==
    /\ scn.phase \in {"undoing", "redoing"}
    /\ scn.undone = scn.n
    /\ scn.redone < scn.n
    /\ redo_load_order
    /\ scn' = [scn EXCEPT !.phase = "redoing", !.redone = @ + 1]
    /\ UNCHANGED prompts

NextUndoRedo ==
    \/ /\ scn.phase = "free"
       /\ \E cached, cached_active \in BOOLEAN : get_lo(cached, cached_active)
       /\ UNCHANGED <<scn, prompts>>
    \/ /\ scn.phase = "free"
       /\ \E p \in Pairs : save_lo(p.lo, p.acti)
       /\ UNCHANGED <<scn, prompts>>
    \/ /\ scn.phase = "free"
       /\ undo_load_order
       /\ UNCHANGED <<scn, prompts>>
    \/ /\ scn.phase = "free"
       /\ redo_load_order
       /\ UNCHANGED <<scn, prompts>>
    \/ /\ scn.phase = "free"
       /\ \E p \in Pairs : ExternalChange(p)
       /\ UNCHANGED <<scn, prompts>>
    \/ Start
    \/ \E p \in Pairs : ScnSave(p)
    \/ ScnUndo
    \/ ScnRedo

SpecUndoRedo == InitUndoRedo /\ [][NextUndoRedo]_vars

-----------------------------------------------------------------------------
(* get_ordered: a list of mod names sorted into the cached load order *)

\* the names get_ordered is asked about: the plugins and two names no load
\* order of the model holds
Names == Mods \cup {"c", "d"}

\* the place of a name in the alphabet, by which list.sort() compares names
AlphaRank(m) == CASE m = "a" -> 1 [] m = "b" -> 2 [] m = "c" -> 3 [] m = "d" -> 4

\* sys.maxint
maxint == 2147483647

\* loIndexCached(mod) raises KeyError for a mod without load order;
\* loIndexCachedOrMax(mod) returns sys.maxint then
loIndexCachedOrMax(cached, m) ==
    IF m \in Range(cached.loadOrder) THEN lindex(cached.loadOrder, m) ELSE maxint

\* list.sort(key=...): stable, ascending by key; key is a function on Names
RECURSIVE SortedByKey(_, _)
SortedByKey(s, key) ==
    IF s = << >> THEN << >>
    ELSE LET front == SortedByKey(SubSeq(s, 1, Len(s) - 1), key)
             m     == s[Len(s)]
             keep  == {k \in 0..Len(front) : \A j \in 1..k : key[front[j]] <= key[m]}
             k     == CHOOSE k \in keep : \A j \in keep : j <= k
         IN  SubSeq(front, 1, k) \o <<m>> \o SubSeq(front, k + 1, Len(front))

\* get_ordered without its first mod_names.sort()
get_ordered_result_one_sort(cached, mod_names) ==
    SortedByKey(mod_names, [m \in Names |-> loIndexCachedOrMax(cached, m)])

\* get_ordered(mod_names): mod_names.sort(), then
\* mod_names.sort(key=loIndexCachedOrMax)
get_ordered_result(cached, mod_names) ==
    SortedByKey(SortedByKey(mod_names, [m \in Names |-> AlphaRank(m)]),
                [m \in Names |-> loIndexCachedOrMax(cached, m)])

\* the lists of at most n names
NameLists(n) == UNION { [1..k -> Names] : k \in 0..n }

\* a call of get_ordered; the record of the call keeps the list given and the
\* list returned
get_ordered(mod_names) ==
    /\ last' = [Quiet("get_ordered") EXCEPT
                   !.arg = [mod_names |-> mod_names,
                            result |-> get_ordered_result(cached_lord, mod_names)]]
    /\ UNCHANGED <<game_handle, ext, cached_lord, _saved_load_orders,
                   _current_list_index, locked, warn_locked, settings, _lords_pickle,
                   now, guards, entered>>

\* the load orders get_ordered is tried with: none cached, an empty one, one
\* in the order of the alphabet and one against it
Orders == { << >>, <<"a", "b">>, <<"b", "a">> }

InitOrdered ==
    /\ game_handle = "Faithful"
    /\ \E lo \in Orders :
          /\ ext = Pair(lo, << >>)
          /\ \/ /\ cached_lord = __empty
                /\ _saved_load_orders = << >>
                /\ _current_list_index = -1
             \/ /\ cached_lord = LoadOrder(lo, << >>)
                /\ _saved_load_orders = <<lo_entry(0, cached_lord)>>
                /\ _current_list_index = 0
    /\ locked = FALSE
    /\ warn_locked = FALSE
    /\ settings = FALSE
    /\ _lords_pickle = [loaded |-> TRUE, saved |-> << >>, index |-> -1]
    /\ now = 0
    /\ guards = << >>
    /\ prompts = << >>
    /\ entered = << >>
    /\ last = Quiet("init")
    /\ scn = Idle

NextOrdered ==
    /\ \E mod_names \in NameLists(MaxNames) : get_ordered(mod_names)
    /\ UNCHANGED <<scn, prompts>>

SpecOrdered == InitOrdered /\ [][NextOrdered]_vars

-----------------------------------------------------------------------------
(* Properties *)

HistoryOps == {"get_lo", "save_lo", "undo", "redo"}

InRange(index) == index >= 0 /\ index <= Len(_saved_load_orders) - 1

\* C1: with the handle that accepts every proposal unchanged, from a state
\* where the cache holds the current history entry S0, after n save_lo calls
\* that each propose a snapshot other than the current one, n undos leave the
\* cache equal to S0 and n further redos leave it equal to the snapshot of
\* the last save_lo.
C1_UndoRedoRoundTrip ==
    /\ (scn.phase = "undoing" /\ scn.undone = scn.n) => LordEq(cached_lord, scn.s0)
    /\ (scn.phase = "redoing" /\ scn.redone = scn.n) => LordEq(cached_lord, scn.final)

\* two saves, two undos and two redos were made
C1_Witness ==
    /\ scn.phase = "redoing"
    /\ scn.n = 2
    /\ scn.redone = 2
    /\ ~LordEq(scn.s0, scn.final)

\* C2: an undo (step -1) or redo (step +1) whose target index lies outside the
\* history (an empty history included) returns without raising, calls the
\* game handle not once and leaves the cache, the history and the current
\* index as they were.
C2_OutOfBoundsNoOp ==
    [][ \A step \in {-1, 1} :
          ( /\ last'.op = (IF step = -1 THEN "undo" ELSE "redo")
            /\ ~InRange(_current_list_index + step) )
          => /\ last'.raised = "none"
             /\ last'.calls = Calls(0, 0, 0)
             /\ cached_lord' = cached_lord
             /\ _saved_load_orders' = _saved_load_orders
             /\ _current_list_index' = _current_list_index ]_vars

\* a redo was asked at the end of a history of two entries
C2_Witness ==
    /\ last.op = "redo"
    /\ last.calls = Calls(0, 0, 0)
    /\ Len(_saved_load_orders) = 2
    /\ _current_list_index = 1

\* C3 (as claimed): trimming a history longer than the maximum M keeps
\* exactly M entries, x + y = M.
C3_TrimKeepsMax ==
    (last.op = "persist" /\ Len(_saved_load_orders) > last.arg)
    => LET xy == _keep_max(last.arg, Len(_saved_load_orders), _current_list_index)
       IN  /\ xy[1] + xy[2] = last.arg
           /\ Len(_lords_pickle.saved) = last.arg

\* C4 (as claimed): the trimmed list is a contiguous slice of the history
\* that lies within it, and its entry at the new current index is the entry
\* the current index named before.
C4_TrimKeepsCurrent ==
    (last.op = "persist" /\ Len(_saved_load_orders) > last.arg)
    => LET kept == _lords_pickle.saved
       IN  /\ \E from \in 0..Len(_saved_load_orders) :
                 /\ from + Len(kept) <= Len(_saved_load_orders)
                 /\ kept = SubSeq(_saved_load_orders, from + 1, from + Len(kept))
                 /\ from + _lords_pickle.index = _current_list_index
           /\ _lords_pickle.index >= 0
           /\ _lords_pickle.index < Len(kept)
           /\ PyIndex(kept, _lords_pickle.index)
                = PyIndex(_saved_load_orders, _current_list_index)

\* C5: when get_load_order raises or the LoadOrder cannot be constructed
\* inside _update_cache, the operation ends with the cache at __empty and
\* with the history and the current index as they were when that
\* _update_cache call began (for the first get_lo: as loaded from the pickle;
\* for the rewrite get_lo forces: as the reconcile before it left them).
C5_FailedReconcile ==
    [][ (last'.op \in HistoryOps /\ last'.raised \in {"get_load_order", "LoadOrder"})
        => LET began == IF last'.op = "get_lo" /\ last'.calls.set = 1
                        THEN last'.mid
                        ELSE IF last'.op = "get_lo" /\ ~_lords_pickle.loaded
                        THEN [saved |-> _lords_pickle.saved,
                              index |-> _lords_pickle.index]
                        ELSE [saved |-> _saved_load_orders,
                              index |-> _current_list_index]
           IN  /\ cached_lord' = __empty
               /\ _saved_load_orders' = began.saved
               /\ _current_list_index' = began.index ]_vars

\* an undo failed in _update_cache with two entries in the history
C5_Witness ==
    /\ last.op = "undo"
    /\ last.raised \in {"get_load_order", "LoadOrder"}
    /\ cached_lord.is_empty
    /\ Len(_saved_load_orders) >= 2

\* C6 (as claimed): when set_load_order raises in a write, the cache is
\* reset to __empty.
C6_ApplyFailureResets ==
    [][ (last'.op \in HistoryOps /\ last'.raised = "set_load_order")
        => cached_lord' = __empty ]_vars

\* C6 (amended): when set_load_order raises in a write, the failure reaches
\* the caller with the cache, the history and the current index as they were
\* when the write began (for the rewrite get_lo forces: as the reconcile
\* before it left them, the cache holding the current entry).
C6_ApplyFailureKeepsCache ==
    [][ (last'.op \in HistoryOps /\ last'.raised = "set_load_order")
        => IF last'.op = "get_lo"
           THEN /\ _saved_load_orders' = last'.mid.saved
                /\ _current_list_index' = last'.mid.index
                /\ ~cached_lord'.is_empty
                /\ cached_lord' = PyIndex(last'.mid.saved, last'.mid.index).lord
           ELSE /\ cached_lord' = cached_lord
                /\ _saved_load_orders' = _saved_load_orders
                /\ _current_list_index' = _current_list_index ]_vars

\* a save_lo ended in set_load_order raising and the cache still holds a
\* load order
C6_Witness ==
    /\ last.op = "save_lo"
    /\ last.raised = "set_load_order"
    /\ ~cached_lord.is_empty

\* C7: entering an Unlock guard sets locked to false; leaving it, after an
\* operation that returned or that raised, sets locked to the value it had
\* when that guard was entered, nested guards included.
C7_UnlockRestores ==
    [][ /\ Len(guards') > Len(guards) => ~locked'
        /\ Len(guards') < Len(guards) => locked' = entered[Len(entered)] ]_vars

\* C8: between operations, whenever the cache is not __empty the history is
\* not empty and the entry at the current index holds a load order equal to
\* the cached one.
C8_CurrentEntryIsCache ==
    ~cached_lord.is_empty
    => /\ _saved_load_orders # << >>
       /\ InRange(_current_list_index)
       /\ LordEq(PyIndex(_saved_load_orders, _current_list_index).lord, cached_lord)

\* C9 (as claimed): an undo or redo leaves the number of history entries
\* unchanged, whatever the handle answers.
C9_NavigationNeverGrows ==
    [][ last'.op \in {"undo", "redo"}
        => Len(_saved_load_orders') = Len(_saved_load_orders) ]_vars

\* C9 (amended): an undo or redo leaves the history entries unchanged and
\* only moves the current index, except when the handle accepts the write as
\* a load order other than the one of the entry aimed at: then exactly one
\* entry, holding the accepted load order, is put into the history (right
\* after the entry aimed at on redo, at max(0, its index - 1) on undo) and the
\* current index names the new entry.  With the handle that accepts every
\* proposal unchanged the history never grows.
C9_NavigationGrowsOnlyWhenPartial ==
    [][ last'.op \in {"undo", "redo"}
        => \/ _saved_load_orders' = _saved_load_orders
           \/ /\ game_handle = "Arbitrary"
              /\ ~cached_lord'.is_empty
              /\ last'.mid.saved = _saved_load_orders
              /\ InRange(last'.mid.index)
              /\ ~LordEq(PyIndex(_saved_load_orders, last'.mid.index).lord,
                         cached_lord')
              /\ _current_list_index'
                   = Max(0, last'.mid.index + (IF last'.op = "redo" THEN 1 ELSE -1))
              /\ _saved_load_orders'
                   = PySliceInsert(_saved_load_orders, _current_list_index',
                                   lo_entry(now, cached_lord')) ]_vars

\* an undo from the third of three entries whose write was accepted as
\* another load order than the one of the second entry it aimed at: the new
\* entry is put in front of the first entry
C9_Witness ==
    /\ last.op = "undo"
    /\ last.raised = "none"
    /\ last.calls.set = 1
    /\ last.mid.index = 1
    /\ Len(last.mid.saved) = 3
    /\ Len(_saved_load_orders) = 4
    /\ _current_list_index = 0
    /\ _saved_load_orders[1] = lo_entry(now, cached_lord)
    /\ ~LordEq(_saved_load_orders[3].lord, cached_lord)

\* C10: with locked set, a history that is not empty and the handle that
\* accepts writes unchanged, a get_lo that returns leaves a cache whose load
\* order is the one of the memorized entry (the current entry when the call
\* began).  If the freshly reconciled load order differed from it, the
\* memorized load order and active mods were written and warn_locked is
\* set; if it did not differ nothing is written.
C10_LockRestoresOrder ==
    [][ ( /\ last'.op = "get_lo"
          /\ last'.raised = "none"
          /\ game_handle = "Faithful"
          /\ locked
          /\ _saved_load_orders # << >> )
        => LET memo == PyIndex(_saved_load_orders, _current_list_index).lord
           IN  /\ cached_lord'.loadOrder = memo.loadOrder
               /\ IF last'.calls.set = 0
                  THEN /\ ext' = ext
                       /\ warn_locked' = warn_locked
                  ELSE /\ PyIndex(last'.mid.saved, last'.mid.index).lord.loadOrder
                            # memo.loadOrder
                       /\ ext' = Pair(memo.loadOrder, memo.activeOrdered)
                       /\ LordEq(cached_lord', memo)
                       /\ warn_locked' ]_vars

\* C11: the cached load order and the load order of every history entry
\* have their active mods among their load order: a LoadOrder whose active
\* mods are not all in its load order is never constructed, so never stored.
C11_ActiveWithinLoadOrder ==
    /\ cached_lord.active \subseteq Range(cached_lord.loadOrder)
    /\ Range(cached_lord.activeOrdered) = cached_lord.active
    /\ \A k \in DOMAIN _saved_load_orders :
          /\ _saved_load_orders[k].lord.active
               \subseteq Range(_saved_load_orders[k].lord.loadOrder)
          /\ Range(_saved_load_orders[k].lord.activeOrdered)
               = _saved_load_orders[k].lord.active

\* the handle answered a write with an active mod that has no load order: the
\* construction failed, and the history holds entries with active mods
C11_Witness ==
    /\ last.op = "save_lo"
    /\ last.raised = "LoadOrder"
    /\ cached_lord.is_empty
    /\ Len(_saved_load_orders) >= 2
    /\ \E k \in DOMAIN _saved_load_orders : _saved_load_orders[k].lord.active # {}

\* C12: get_ordered returns a permutation of the names it is given in which
\* the names that have a place in the cached load order come first, in the
\* order of their places, and the names that have none come after them, in
\* the order of the alphabet; a name without load order makes no call fail.
C12_GetOrdered ==
    last.op = "get_ordered"
    => LET given  == last.arg.mod_names
           result == last.arg.result
           placed(m) == m \in Range(cached_lord.loadOrder)
       IN  /\ Len(result) = Len(given)
           /\ \A m \in Names :
                 Cardinality({k \in DOMAIN result : result[k] = m})
                   = Cardinality({k \in DOMAIN given : given[k] = m})
           /\ \A i, j \in DOMAIN result :
                 i < j =>
                   /\ placed(result[j]) => placed(result[i])
                   /\ (placed(result[i]) /\ placed(result[j]))
                        => lindex(cached_lord.loadOrder, result[i])
                             <= lindex(cached_lord.loadOrder, result[j])
                   /\ (~placed(result[i]) /\ ~placed(result[j]))
                        => AlphaRank(result[i]) <= AlphaRank(result[j])

\* names with and without a place, given against both orders
C12_Witness ==
    /\ last.op = "get_ordered"
    /\ cached_lord.loadOrder = <<"b", "a">>
    /\ last.arg.mod_names = <<"d", "a", "c">>
    /\ last.arg.result = <<"a", "c", "d">>

\* C13: begun with an empty history and the current index -1, whatever the
\* handle answers, the current index is -1 while the history is empty and
\* names one of its entries otherwise.
C13_IndexInRange ==
    IF _saved_load_orders = << >>
    THEN _current_list_index = -1
    ELSE _current_list_index \in 0..(Len(_saved_load_orders) - 1)

\* a redo whose write was accepted as another load order put the new entry
\* at the very end of the history
C13_Witness ==
    /\ last.op = "redo"
    /\ last.raised = "none"
    /\ last.calls.set = 1
    /\ game_handle = "Arbitrary"
    /\ last.mid.index = 1
    /\ Len(last.mid.saved) = 2
    /\ Len(_saved_load_orders) = 3
    /\ _current_list_index = 2

\* C14: a get_lo or save_lo that returns records, in each _update_cache it
\* runs, exactly one entry if the history was empty or the load order it
\* cached differs from the current entry, and none otherwise; the new entry
\* is put right after the entry that was current, the current index moves on
\* to it, and all entries there were stay, in their order, those after the
\* old current index too.  (A get_lo that forces a rewrite runs
\* _update_cache twice: the history between the two is last.mid.)
C14_RecordAfterCurrent ==
    [][ (last'.op \in {"get_lo", "save_lo"} /\ last'.raised = "none")
        => LET began == IF last'.op = "get_lo" /\ ~_lords_pickle.loaded
                        THEN [saved |-> _lords_pickle.saved,
                              index |-> _lords_pickle.index]
                        ELSE [saved |-> _saved_load_orders,
                              index |-> _current_list_index]
               ended == [saved |-> _saved_load_orders',
                         index |-> _current_list_index']
               twice == last'.op = "get_lo" /\ last'.calls.set = 1
               Recorded(b, e) ==
                   LET new == PyIndex(e.saved, e.index).lord
                   IN  IF b.saved = << >> \/ ~LordEq(new, PyIndex(b.saved, b.index).lord)
                       THEN /\ e.index = b.index + 1
                            /\ Len(e.saved) = Len(b.saved) + 1
                            /\ SubSeq(e.saved, 1, b.index + 1)
                                 = SubSeq(b.saved, 1, b.index + 1)
                            /\ SubSeq(e.saved, b.index + 3, Len(e.saved))
                                 = SubSeq(b.saved, b.index + 2, Len(b.saved))
                       ELSE e = b
           IN  /\ ~cached_lord'.is_empty
               /\ ended.saved # << >>
               /\ LordEq(PyIndex(ended.saved, ended.index).lord, cached_lord')
               /\ IF twice
                  THEN /\ last'.mid.saved # << >>
                       /\ Recorded(began, last'.mid)
                       /\ Recorded(last'.mid, ended)
                  ELSE Recorded(began, ended) ]_vars

\* a save_lo after an undo: the new entry stands between the entry that was
\* current and the entry undone, which stays
C14_Witness ==
    /\ last.op = "save_lo"
    /\ last.raised = "none"
    /\ Len(_saved_load_orders) = 3
    /\ _current_list_index = 1
    /\ LordEq(_saved_load_orders[2].lord, cached_lord)
    /\ ~LordEq(_saved_load_orders[1].lord, cached_lord)
    /\ ~LordEq(_saved_load_orders[3].lord, cached_lord)
    /\ ~LordEq(_saved_load_orders[3].lord, _saved_load_orders[1].lord)

\* C15: an undo or redo ends after at most as many dry runs as there are
\* entries in the direction it goes, so after at most len(history) of them:
\* each entry skipped takes the aim one entry further from the current one
\* (when it writes, the entry aimed at is as many entries away as dry runs
\* were made), and past the ends of the history no dry run is made.
C15_RestoreTerminates ==
    [][ last'.op \in {"undo", "redo"}
        => LET room == IF last'.op = "undo" THEN _current_list_index
                       ELSE Len(_saved_load_orders) - 1 - _current_list_index
               away == IF last'.op = "undo"
                       THEN _current_list_index - last'.mid.index
                       ELSE last'.mid.index - _current_list_index
           IN  /\ last'.calls.dry <= Max(room, 0)
               /\ last'.calls.dry <= Len(_saved_load_orders)
               /\ last'.calls.set = 1 => away = last'.calls.dry
               /\ (last'.raised = "none" /\ last'.calls.set = 0)
                    => last'.calls.dry = Max(room, 0) ]_vars

\* an undo from the fourth entry that found each entry before it equal to the
\* cache, and ended at the front of the history
C15_Witness ==
    /\ last.op = "undo"
    /\ last.raised = "none"
    /\ last.calls = Calls(3, 0, 0)
    /\ Len(_saved_load_orders) = 4
    /\ _current_list_index = 3

\* C16: with the handle that accepts every proposal unchanged, an undo or
\* redo that returns either finds no entry in its direction whose load order
\* differs from the cached one, and then leaves the cache, the history and
\* the current index as they are, or leaves the cache equal to the nearest
\* such entry and the current index at that entry.
C16_NearestDiffering ==
    [][ ( /\ last'.op \in {"undo", "redo"}
          /\ last'.raised = "none"
          /\ game_handle = "Faithful" )
        => LET dir == IF last'.op = "undo" THEN -1 ELSE 1
               differing ==
                   {k \in 0..(Len(_saved_load_orders) - 1) :
                       /\ (k - _current_list_index) * dir > 0
                       /\ ~LordEq(PyIndex(_saved_load_orders, k).lord, cached_lord)}
           IN  IF differing = {}
               THEN /\ cached_lord' = cached_lord
                    /\ _saved_load_orders' = _saved_load_orders
                    /\ _current_list_index' = _current_list_index
                    /\ last'.calls.set = 0
               ELSE LET nearest == CHOOSE k \in differing :
                                      \A j \in differing :
                                         (j - _current_list_index) * dir
                                           >= (k - _current_list_index) * dir
                    IN  /\ LordEq(cached_lord',
                                  PyIndex(_saved_load_orders, nearest).lord)
                        /\ _current_list_index' = nearest
                        /\ _saved_load_orders' = _saved_load_orders ]_vars

\* a redo went past an entry equal to the cache to the differing entry after
\* it
C16_Witness ==
    /\ last.op = "redo"
    /\ last.raised = "none"
    /\ game_handle = "Faithful"
    /\ last.calls = Calls(2, 1, 1)
    /\ Len(_saved_load_orders) = 4
    /\ _current_list_index = 3
    /\ LordEq(_saved_load_orders[2].lord, _saved_load_orders[3].lord)
    /\ ~LordEq(_saved_load_orders[3].lord, cached_lord)

\* C17 (as claimed): when the write of an undo or redo is accepted as a load
\* order other than the one of the entry aimed at, the entry recorded for it
\* is put right after that entry on redo and right before it on undo,
\* wherever in the history that entry is, and the current index names the new
\* entry.
C17_PartialNextToTarget ==
    [][ ( /\ last'.op \in {"undo", "redo"}
          /\ last'.raised = "none"
          /\ last'.calls.set = 1
          /\ ~LordEq(PyIndex(_saved_load_orders, last'.mid.index).lord, cached_lord') )
        => LET target == last'.mid.index
               place  == IF last'.op = "redo" THEN target + 1 ELSE target
           IN  /\ _current_list_index' = place
               /\ _saved_load_orders'
                    = SubSeq(_saved_load_orders, 1, place)
                        \o <<lo_entry(now, cached_lord')>>
                        \o SubSeq(_saved_load_orders, place + 1,
                                  Len(_saved_load_orders)) ]_vars

\* C18 (as claimed): while an Unlock guard is active and the lock is not
\* toggled inside it, a get_lo makes no dry run of a memorized load order,
\* forces no write and does not set warn_locked.
C18_NoLockWorkInsideUnlock ==
    [][ (last'.op = "get_lo" /\ guards # << >>)
        => /\ last'.calls.dry = 0
           /\ last'.calls.set = 0
           /\ warn_locked' = warn_locked ]_vars

\* C19 (as claimed): when a toggle_lock_load_order call ends, locked is the
\* negation of what it was when the call began, and the stored setting equals locked.
C19_ToggleFlips ==
    [][ last'.op = "toggle"
        => LET before == IF Len(prompts') < Len(prompts)
                         THEN prompts[Len(prompts)].locked
                         ELSE locked
           IN  /\ locked' = ~before
               /\ settings' = locked' ]_vars

\* C19 (amended): when a toggle_lock_load_order call ends, locked is the negation of
\* what it was when the call began, unless the lock was off then and
\* balt.askContinue returned False: then locked is off.  Either way the stored
\* setting equals locked.
C19_ToggleFlipsUnlessDeclined ==
    [][ last'.op = "toggle"
        => LET before == IF Len(prompts') < Len(prompts)
                         THEN prompts[Len(prompts)].locked
                         ELSE locked
           IN  /\ last'.arg = 1 => (~before /\ Len(prompts') < Len(prompts))
               /\ locked' = (IF last'.arg = 1 THEN FALSE ELSE ~before)
               /\ settings' = locked' ]_vars

\* the lock was off, the prompt was declined and the lock is still off, with
\* a history at hand
C19_Witness ==
    /\ last.op = "toggle"
    /\ last.arg = 1
    /\ ~locked
    /\ ~settings
    /\ Len(_saved_load_orders) >= 2


\* old is what is left of new when the entries at the positions in gone are taken out
Without(new, gone) ==
    LET kept(k) == Cardinality({j \in 1..k : j \notin gone})
        place(i) == CHOOSE k \in 1..Len(new) : k \notin gone /\ kept(k) = i
    IN  [i \in 1..(Len(new) - Cardinality(gone)) |-> new[place(i)]]

\* C20: persist_orders changes nothing but the persisted record: the history in
\* memory, the current index, the cache slot and the lock flags are what they were,
\* also when the history is longer than the maximum and the record is trimmed; and
\* once the pickle is loaded every operation leaves the entries of the history in
\* place, in their order, adding at most new ones
C20_PersistLeavesMemory ==
    [][ /\ last'.op = "persist" =>
              /\ _saved_load_orders' = _saved_load_orders
              /\ _current_list_index' = _current_list_index
              /\ cached_lord' = cached_lord
              /\ locked' = locked
              /\ warn_locked' = warn_locked
        /\ _lords_pickle.loaded =>
              /\ Len(_saved_load_orders') >= Len(_saved_load_orders)
              /\ \E gone \in SUBSET (1..Len(_saved_load_orders')) :
                     /\ Cardinality(gone) =
                            Len(_saved_load_orders') - Len(_saved_load_orders)
                     /\ Without(_saved_load_orders', gone) = _saved_load_orders
      ]_vars

\* a history of three entries persisted with a maximum of two: the record holds fewer
\* entries than the memory does
C20_Witness ==
    /\ last.op = "persist"
    /\ last.arg = 2
    /\ Len(_saved_load_orders) = 3
    /\ Len(_lords_pickle.saved) < 3

====
